---- MODULE Spec2Model ----
(***************************************************************************)
(* Verification model of the appointment-scheduling front end:             *)
(*   - the available-times effect, form validation and the row actions of  *)
(*     AppointmentList (components/appointments/AppointmentList.tsx),      *)
(*   - the HTTP client wrapper (ApiService and the services built on it),  *)
(*   - the auth context (checkAuth, login, register, logout).              *)
(* The back end is not part of the repository: it appears as the           *)
(* environment, with the behaviour the specification states for it.        *)
(***************************************************************************)
EXTENDS Integers, Sequences, FiniteSets, Bags, TLC

(***************************************************************************)
(* Bounds of the model                                                     *)
(***************************************************************************)
\* largest calendar day (0 = a Monday) a date of the model can name
MaxDay == 1
\* largest number of appointments a fetched list / the server holds
MaxAppts == 2
\* number of clock steps the model takes
MaxTicks == 3
MaxCalls == 2
\* largest number of appointments the server holds at the start
MaxStored == 1
\* largest number of mutation requests in flight
MaxInFlight == 2

(***************************************************************************)
(* Time: instants are milliseconds of local time, as in dayjs and Date.    *)
(* An 'HH:mm' string is represented by its minute of the day and a         *)
(* 'YYYY-MM-DD' string by its day number; parsing and formatting are the   *)
(* conversions between instants and these.                                 *)
(***************************************************************************)
MsPerMinute == 60000
MsPerDay == 86400000
NULL == "null"
\* null / undefined of a user, of an instant, of an availability entry
NoUser == [_id |-> "", role |-> ""]
NoInstant == 0 - 1
NoEntry == [day |-> "", startTime |-> 0, endTime |-> 0]

StartOfDay(t) == t - (t % MsPerDay)
EndOfDay(t) == StartOfDay(t) + MsPerDay - 1
\* dayjs(str, 'HH:mm'): today's date at that time of day
ParseHHmm(m, nowT) == StartOfDay(nowT) + m * MsPerMinute
\* d.format('HH:mm')
FormatHHmm(t) == (t % MsPerDay) \div MsPerMinute
\* dayjs('YYYY-MM-DD'): local midnight of that day
ParseDate(d) == d * MsPerDay
\* d.format('YYYY-MM-DD')
FormatDate(t) == t \div MsPerDay
\* d.hour(), d.minute()
Hour(t) == (t % MsPerDay) \div (60 * MsPerMinute)
Minute(t) == ((t % MsPerDay) \div MsPerMinute) % 60
DayNames == <<"monday", "tuesday", "wednesday", "thursday", "friday", "saturday", "sunday">>
\* d.format('dddd').toLowerCase(); day 0 is a Monday
FormatWeekday(t) == DayNames[((t \div MsPerDay) % 7) + 1]
\* a.isBefore(b): a < b;  a.isBefore(b, 'day'): a.endOf('day') < b
IsBefore(a, b) == a < b
IsBeforeDay(a, b) == EndOfDay(a) < b
IsSameDay(a, b) == StartOfDay(a) <= b /\ b <= EndOfDay(a)

(***************************************************************************)
(* Data                                                                    *)
(***************************************************************************)
DoctorIds == {"d1", "d2"}
\* Appointment.doctor is 'Doctor | string': a bare id or a resolved object
DoctorRef(isString, id) == [isString |-> isString, id |-> id]

VARIABLES
  now,              \* Date.now() / dayjs()
  user,             \* AuthProvider: the authenticated user, or NULL
  doctors,          \* AppointmentList: data of the 'doctors' query (id -> availability; empty while undefined)
  formData,         \* AppointmentList: doctorId, reason, patientId
  selectedDoctor,   \* AppointmentList: id of the selected doctor record, or NULL
  selectedDate,     \* AppointmentList: instant, or NULL
  selectedTime,     \* AppointmentList: instant, or NULL
  appointments,     \* AppointmentList: data of the 'appointments' query
  availableTimes,   \* AppointmentList: sequence of 'HH:mm'
  localStorage,     \* browser storage: token, userId, userRole, redirectAfterLogin
  loading,          \* AuthProvider: loading
  authError,        \* AuthProvider: error
  checkAuthPc,      \* checkAuth: "idle", "racing" (awaiting Promise.race), "delay" (backoff)
  checkAuthResult,  \* checkAuth: value of the last return, "none" before the first
  checkAuthCalls,   \* checkAuth: number of calls made
  retryCount,       \* checkAuth: retryCount
  verifyPromise,    \* checkAuth: verifyPromise
  verifyRequest,    \* network: the request verifyPromise waits for
  timeoutPromise,   \* checkAuth: timeoutPromise
  loginPc,          \* login / register: "idle", "login", "register" (awaiting the server),
                    \* "timedOut" (login awaiting the server, LoginForm gave up)
  lastRequest,      \* network: the last request sent through apiService
  purgedToken,      \* history: the token checkAuth purged since a token was last stored
  served,           \* history: the users the server delivered in a successful response
  openDialog,          \* AppointmentList: the form dialog is open
  confirmActionDialog, \* AppointmentList: the discard-changes dialog is open
  confirmCancelDialog, \* AppointmentList: the cancel-appointment dialog is open
  appointmentToCancel, \* AppointmentList: the appointment of the cancel dialog, or null
  editingAppointment,  \* AppointmentList: the appointment being edited, or null
  formError,           \* AppointmentList: error, as a set of <<key, message>>
  errorTimer,          \* AppointmentList: the 5 s timer that clears a cancel error is running
  srvAppointments,     \* back end: the appointments it stores
  inFlight,            \* network: the bag of mutation requests sent and not yet answered
  loadingUser,         \* ArchivedAppointmentList: loadingUser
  checkAuthThen        \* ArchivedAppointmentList: the then() of its checkAuth() call: "none",
                       \* or pending with the isMounted its closure reads, "mounted" / "unmounted"

archVars == <<loadingUser, checkAuthThen>>
slotVars == <<doctors, formData, selectedDoctor, selectedDate, selectedTime,
              appointments, availableTimes>>
apptVars == <<openDialog, confirmActionDialog, confirmCancelDialog, appointmentToCancel,
              editingAppointment, formError, errorTimer, srvAppointments, inFlight>>
authVars == <<localStorage, loading, authError, checkAuthPc, checkAuthResult, checkAuthCalls,
              retryCount, verifyPromise, verifyRequest, timeoutPromise, loginPc, lastRequest,
              purgedToken, served>>

(***************************************************************************)
(* Tokens and browser storage                                              *)
(***************************************************************************)
MaxTokenLength == 2000
MaxRetries == 2
\* a stored token: its length, whether it contains '.', whether its payload
\* decodes to an object with a numeric exp (seconds), and the payload's sub
Token(name, length, hasDot, expReadable, exp, sub) ==
  [name |-> name, length |-> length, hasDot |-> hasDot, expReadable |-> expReadable,
   exp |-> exp, sub |-> sub]
NoToken == Token("", 0, FALSE, FALSE, 0, "")
\* well-formed, of the largest accepted length, expiring at 1000 ms
TokenValid == Token("tValid", 2000, TRUE, TRUE, 1, "p1")
\* one character too long, and expired as well
TokenLong == Token("tLong", 2001, TRUE, TRUE, 0, "p1")
TokenNoDot == Token("tNoDot", 120, FALSE, FALSE, 0, "")
\* has the separator, but the payload does not decode
TokenOpaque == Token("tOpaque", 120, TRUE, FALSE, 0, "")
\* the token the server issues on login, registration or verification
IssuedToken(u) == Token("tFresh", 120, TRUE, TRUE, 60, u._id)
StoredTokens == {TokenValid, TokenLong, TokenNoDot, TokenOpaque}
\* localStorage.clear()
EmptyStorage == [token |-> NoToken, userId |-> "", userRole |-> "", redirectAfterLogin |-> ""]

(***************************************************************************)
(* ApiService: the axios instance and its interceptors                     *)
(***************************************************************************)
\* validateStatus of the ApiService instance
ValidateStatus(status) == status < 500
\* validateStatus of a plain axios instance (authService._getAuthAxios)
ValidateStatusDefault(status) == status >= 200 /\ status < 300
\* a response: status 0 stands for no response at all (network error, timeout)
Response(url, status, u, tok) == [url |-> url, status |-> status, user |-> u, token |-> tok]
NoResponse == Response("", 0, NoUser, NoToken)
Request(url, auth, seq) == [url |-> url, auth |-> auth, seq |-> seq]
IsAuthRoute(url) == url \in {"/login", "/register"}
\* request interceptor: the Authorization header, NoToken when none is set
AuthorizationHeader(ls, url) ==
  IF ls.token # NoToken /\ ~IsAuthRoute(url) THEN ls.token ELSE NoToken
\* response error interceptor: a rejected 401 removes the stored token
ResponseErrorInterceptor(ls, status) ==
  IF status = 401 THEN [ls EXCEPT !.token = NoToken] ELSE ls
\* the users that successful responses carry
Delivered(rs) == { r.user : r \in { x \in rs : ValidateStatusDefault(x.status) /\ x.user # NoUser } }
\* a settled promise
Fulfilled(u, tok) == [state |-> "fulfilled", user |-> u, token |-> tok, hasResponse |-> TRUE, status |-> 200]
Rejected(hasResponse, status) ==
  [state |-> "rejected", user |-> NoUser, token |-> NoToken, hasResponse |-> hasResponse, status |-> status]
Pending == [state |-> "pending", user |-> NoUser, token |-> NoToken, hasResponse |-> FALSE, status |-> 0]
NoPromise == [state |-> "none", user |-> NoUser, token |-> NoToken, hasResponse |-> FALSE, status |-> 0]
\* apiService.get: resolves with the body when validateStatus accepts the status
ApiSettle(resp) ==
  IF resp.status = 0 THEN Rejected(FALSE, 0)
  ELSE IF ValidateStatus(resp.status) THEN Fulfilled(resp.user, resp.token)
  ELSE Rejected(TRUE, resp.status)
\* storage after apiService settled a response
StorageAfterApi(ls, resp) ==
  IF resp.status # 0 /\ ~ValidateStatus(resp.status)
  THEN ResponseErrorInterceptor(ls, resp.status) ELSE ls
\* a body used as a user object although it is not one
BodyAsUser(resp) == IF resp.user # NoUser THEN resp.user ELSE [_id |-> "", role |-> "body"]

\* userService.getCurrentUser, given the response to /users/current and the
\* response to the fallback request /users/:id
GetCurrentUser(resp, fb, ls) ==
  LET r == ApiSettle(resp)
  IN IF r.state = "fulfilled"
     THEN IF r.user = NoUser THEN Rejected(FALSE, 0) ELSE r
     ELSE IF r.hasResponse /\ r.status = 404
          THEN IF ls.token = NoToken \/ ~ls.token.expReadable \/ ls.token.sub = ""
                  \/ ApiSettle(fb).state # "fulfilled"
               THEN Rejected(FALSE, 0)
               ELSE Fulfilled(BodyAsUser(fb), ls.token)
          ELSE r

(***************************************************************************)
(* AuthProvider.checkAuth                                                  *)
(***************************************************************************)
LocalCheck_ExpiryFirst(tok, nowT) ==
  IF tok = NoToken THEN "absent"
  ELSE IF tok.expReadable /\ nowT >= tok.exp * 1000 THEN "expired"
  ELSE IF tok.length > MaxTokenLength \/ ~tok.hasDot THEN "malformed"
  ELSE IF ~tok.expReadable THEN "undecodable"
  ELSE "valid"

\* the checks checkAuth makes on the stored token before it asks the server
LocalCheck(tok, nowT) ==
  IF tok = NoToken THEN "absent"
  ELSE IF tok.length > MaxTokenLength \/ ~tok.hasDot THEN "malformed"
  ELSE IF ~tok.expReadable THEN "undecodable"
  ELSE IF nowT >= tok.exp * 1000 THEN "expired"
  ELSE "valid"

PurgesToken_MalformedOnly(c) == c = "malformed"

\* the outcomes on which checkAuth removes the token and reports an error
PurgesToken(c) == c \in {"malformed", "expired"}

CheckAuthFails_TrustToken ==
  /\ loading' = FALSE
  /\ checkAuthResult' = "true"
  /\ checkAuthPc' = "idle"
  /\ user' = [_id |-> localStorage.token.sub, role |-> "patient"]

\* the end of checkAuth once the attempts are used up or the error has a response
CheckAuthFails ==
  /\ loading' = FALSE
  /\ checkAuthResult' = "false"
  /\ checkAuthPc' = "idle"
  /\ UNCHANGED user

\* checkAuth after Promise.race settled with o, the retry counter being rc;
\* alt is the response to the alternative request /users/:id
CheckAuthAfterRace(o, rc, alt, ls) ==
  /\ retryCount' = rc
  /\ IF o.state = "fulfilled" /\ o.user # NoUser
     THEN /\ localStorage' = [ls EXCEPT
                 !.token = IF o.token # NoToken THEN o.token ELSE @,
                 !.userRole = IF o.user.role # "" THEN o.user.role ELSE @]
          /\ user' = o.user
          /\ loading' = FALSE
          /\ checkAuthResult' = "true"
          /\ checkAuthPc' = "idle"
     ELSE IF o.hasResponse /\ o.status = 404 /\ ls.userId # ""
             /\ ApiSettle(alt).state = "fulfilled"
     THEN /\ user' = BodyAsUser(alt)
          /\ localStorage' = StorageAfterApi(ls, alt)
          /\ loading' = FALSE
          /\ checkAuthResult' = "true"
          /\ checkAuthPc' = "idle"
     ELSE IF rc < MaxRetries /\ ~o.hasResponse
     THEN /\ checkAuthPc' = "delay"
          /\ localStorage' = ls
          /\ UNCHANGED <<user, loading, checkAuthResult>>
     ELSE /\ CheckAuthFails
          /\ localStorage' = ls

\* the users the server knows and the responses it can give
ServerUsers == { [_id |-> "p1", role |-> "patient"], [_id |-> "d1", role |-> "doctor"] }
\* the user the server takes a token to belong to
TokenOwner(tok) == CHOOSE u \in ServerUsers : u._id = (IF tok.sub = "d1" THEN "d1" ELSE "p1")
\* the answers to a request for the user of token tok
UserResponses(url, tok) ==
  { Response(url, 200, TokenOwner(tok), NoToken),
    Response(url, 200, TokenOwner(tok), IssuedToken(TokenOwner(tok))) }
  \cup { Response(url, st, NoUser, NoToken) : st \in {0, 401, 404, 500} }

\* the answers to /users/:id that matter: the user, or not found
UserByIdResponses ==
  { Response("/users/id", 200, [_id |-> "p1", role |-> "patient"], NoToken),
    Response("/users/id", 404, NoUser, NoToken) }

\* checkAuth(), up to its first await
CheckAuth ==
  /\ checkAuthPc = "idle"
  /\ loginPc = "idle"
  /\ checkAuthCalls < MaxCalls
  /\ checkAuthCalls' = checkAuthCalls + 1
  /\ LET tok == localStorage.token
         c == LocalCheck(tok, now)
     IN IF c = "absent"
        THEN /\ loading' = FALSE
             /\ checkAuthResult' = "false"
             /\ UNCHANGED <<localStorage, authError, checkAuthPc, retryCount, verifyPromise, verifyRequest,
                            timeoutPromise, lastRequest, purgedToken>>
        ELSE IF PurgesToken(c)
        THEN /\ localStorage' = [localStorage EXCEPT !.token = NoToken]
             /\ authError' = c
             /\ loading' = FALSE
             /\ checkAuthResult' = "false"
             /\ purgedToken' = tok
             /\ UNCHANGED <<checkAuthPc, retryCount, verifyPromise, verifyRequest, timeoutPromise, lastRequest>>
        ELSE /\ localStorage' = IF c = "valid" /\ tok.sub # ""
                                THEN [localStorage EXCEPT !.userId = tok.sub] ELSE localStorage
             /\ verifyPromise' = Pending
             /\ timeoutPromise' = "pending"
             /\ lastRequest' = Request("/users/current",
                                       AuthorizationHeader(localStorage', "/users/current"),
                                       1 - lastRequest.seq)
             /\ verifyRequest' = lastRequest'
             /\ retryCount' = 0
             /\ checkAuthPc' = "racing"
             /\ UNCHANGED <<loading, authError, checkAuthResult, purgedToken>>
  /\ UNCHANGED <<now, user, loginPc, served, slotVars, apptVars>>

\* a call of checkAuth by the provider when it mounts, or by a component
\* behind ProtectedRoute
CheckAuthStart ==
  /\ checkAuthCalls = 0 \/ (~loading /\ user # NoUser)
  /\ CheckAuth
  /\ UNCHANGED archVars

\* the server answers /users/current (or the request fails); checkAuth resumes
\* when it is awaiting the race
VerifySettles(resp, fb, alt) ==
  /\ verifyPromise.state = "pending"
  /\ LET ls == StorageAfterApi(localStorage, resp)
         o == GetCurrentUser(resp, fb, ls)
     IN /\ verifyPromise' = o
        /\ IF checkAuthPc = "racing"
           THEN CheckAuthAfterRace(o, retryCount, alt, ls)
           ELSE /\ localStorage' = ls
                /\ UNCHANGED <<user, loading, checkAuthResult, checkAuthPc, retryCount>>
  /\ served' = served \cup Delivered({resp} \cup (IF resp.status = 404 THEN {fb, alt} ELSE {}))
  /\ UNCHANGED <<now, authError, checkAuthCalls, verifyRequest, timeoutPromise, loginPc,
                 lastRequest, purgedToken, slotVars, apptVars, archVars>>

\* the server answers the token the request carried
ServerAnswersVerify ==
  \E resp \in UserResponses("/users/current", verifyRequest.auth), fb, alt \in UserByIdResponses :
     VerifySettles(resp, fb, alt)

\* the 8 second timer of timeoutPromise fires
TimeoutFires ==
  /\ timeoutPromise = "pending"
  /\ timeoutPromise' = "rejected"
  /\ IF checkAuthPc = "racing"
     THEN CheckAuthAfterRace(Rejected(FALSE, 0), retryCount, NoResponse, localStorage)
     ELSE UNCHANGED <<user, loading, localStorage, checkAuthResult, checkAuthPc, retryCount>>
  /\ UNCHANGED <<now, authError, checkAuthCalls, verifyPromise, verifyRequest, loginPc, lastRequest,
                 purgedToken, served, slotVars, apptVars, archVars>>

\* the backoff delay is over: retryCount++ and the next Promise.race of the
\* same two promises, which takes the first settled one in array order
DelayElapses ==
  /\ checkAuthPc = "delay"
  /\ IF verifyPromise.state # "pending"
     THEN CheckAuthAfterRace(verifyPromise, retryCount + 1, NoResponse, localStorage)
     ELSE IF timeoutPromise = "rejected"
     THEN CheckAuthAfterRace(Rejected(FALSE, 0), retryCount + 1, NoResponse, localStorage)
     ELSE /\ checkAuthPc' = "racing"
          /\ retryCount' = retryCount + 1
          /\ UNCHANGED <<user, loading, localStorage, checkAuthResult>>
  /\ UNCHANGED <<now, authError, checkAuthCalls, verifyPromise, verifyRequest, timeoutPromise, loginPc,
                 lastRequest, purgedToken, served, slotVars, apptVars, archVars>>

\* the session at rest: nobody is logged in, nothing is pending
AuthAtRest(ls, ld, sv) ==
  /\ localStorage = ls
  /\ loading = ld
  /\ authError = ""
  /\ checkAuthPc = "idle"
  /\ checkAuthResult = "none"
  /\ checkAuthCalls = 0
  /\ retryCount = 0
  /\ verifyPromise = NoPromise
  /\ verifyRequest = Request("", NoToken, 0)
  /\ timeoutPromise = "none"
  /\ loginPc = "idle"
  /\ lastRequest = Request("", NoToken, 0)
  /\ purgedToken = NoToken
  /\ served = sv

(***************************************************************************)
(* AppointmentList: the effects that follow every render                   *)
(***************************************************************************)
\* selectedDoctor.availability.find(a => a.day === dayOfWeek)
RECURSIVE FindAvailability(_, _, _)
FindAvailability(avail, dayOfWeek, i) ==
  IF i > Len(avail) THEN NoEntry
  ELSE IF avail[i].day = dayOfWeek THEN avail[i]
  ELSE FindAvailability(avail, dayOfWeek, i + 1)

\* a comparison that treats the doctor field as a bare id only
SameDoctor_StringOnly(app, doctorId) ==
  app.doctor.isString /\ app.doctor.id = doctorId

\* typeof app.doctor === 'string' ? app.doctor === id : app.doctor._id === id
SameDoctor(app, doctorId) ==
  IF app.doctor.isString THEN app.doctor.id = doctorId ELSE app.doctor.id = doctorId

\* appointments?.some(app => ...); undefined data is the empty list: both give a falsy result
HasAppointment(appts, timeStr, selDate, doctorId) ==
  /\ \E app \in appts :
       /\ FormatDate(ParseDate(app.date)) = FormatDate(selDate)
       /\ app.time = timeStr
       /\ app.status # "cancelled"
       /\ SameDoctor(app, doctorId)

\* a loop without the test of the hour
RECURSIVE SlotLoop_NoHours(_, _, _, _, _)
SlotLoop_NoHours(current, end, appts, selDate, doctorId) ==
  IF ~IsBefore(current, end) THEN <<>>
  ELSE LET timeStr == FormatHHmm(current)
           rest == SlotLoop_NoHours(current + 30 * MsPerMinute, end, appts, selDate, doctorId)
       IN IF ~HasAppointment(appts, timeStr, selDate, doctorId)
          THEN <<timeStr>> \o rest
          ELSE rest

\* a loop that only takes the slots that end by the end time
RECURSIVE SlotLoop_WholeSlots(_, _, _, _, _)
SlotLoop_WholeSlots(current, end, appts, selDate, doctorId) ==
  IF IsBefore(end, current + 30 * MsPerMinute) THEN <<>>
  ELSE LET timeStr == FormatHHmm(current)
           rest == SlotLoop_WholeSlots(current + 30 * MsPerMinute, end, appts, selDate, doctorId)
       IN IF ~HasAppointment(appts, timeStr, selDate, doctorId)
             /\ Hour(current) >= 8 /\ Hour(current) < 17
          THEN <<timeStr>> \o rest
          ELSE rest

\* a loop that also takes the slot starting at the end time
RECURSIVE SlotLoop_InclusiveEnd(_, _, _, _, _)
SlotLoop_InclusiveEnd(current, end, appts, selDate, doctorId) ==
  IF IsBefore(end, current) THEN <<>>
  ELSE LET timeStr == FormatHHmm(current)
           rest == SlotLoop_InclusiveEnd(current + 30 * MsPerMinute, end, appts, selDate, doctorId)
       IN IF ~HasAppointment(appts, timeStr, selDate, doctorId)
             /\ Hour(current) >= 8 /\ Hour(current) < 17
          THEN <<timeStr>> \o rest
          ELSE rest

\* the while loop of the effect: current runs from start in steps of 30 minutes
RECURSIVE SlotLoop(_, _, _, _, _)
SlotLoop(current, end, appts, selDate, doctorId) ==
  IF ~IsBefore(current, end) THEN <<>>
  ELSE LET timeStr == FormatHHmm(current)
           rest == SlotLoop(current + 30 * MsPerMinute, end, appts, selDate, doctorId)
       IN IF ~HasAppointment(appts, timeStr, selDate, doctorId)
             /\ Hour(current) >= 8 /\ Hour(current) < 17
          THEN <<timeStr>> \o rest
          ELSE rest

\* the available-times effect
ComputeAvailableTimes(docs, selDoctor, selDate, appts, nowT) ==
  IF selDoctor # NULL /\ selDate # NoInstant
  THEN LET availability == FindAvailability(docs[selDoctor], FormatWeekday(selDate), 1)
       IN IF availability # NoEntry
          THEN SlotLoop(ParseHHmm(availability.startTime, nowT),
                        ParseHHmm(availability.endTime, nowT),
                        appts, selDate, selDoctor)
          ELSE <<>>
  ELSE <<>>

\* the selected-doctor effect: doctors.find(d => d._id === formData.doctorId) || null
FindDoctor(docs, doctorId) ==
  IF doctorId # "" /\ doctorId \in DOMAIN docs THEN doctorId ELSE NULL

\* the preselect effect: a doctor user always books with themself
Preselect(fd, u) ==
  IF u # NoUser /\ u.role = "doctor" /\ fd.doctorId = ""
  THEN [fd EXCEPT !.doctorId = u._id] ELSE fd

(***************************************************************************)
(* Inputs of the model                                                     *)
(***************************************************************************)
Users == { [_id |-> "p1", role |-> "patient"], [_id |-> "d1", role |-> "doctor"] }
\* 07:30, 08:00, 08:15 and 09:00, 09:15, 10:00, 17:30 as minutes of the day
StartTimes == {450, 480, 495}
EndTimes == {540, 555, 600, 1050}
\* times of day an appointment or a picked time can have: 08:30, 09:00
ApptTimes == {510, 540}
Days == 0..MaxDay
AvailabilityEntry(d, s, e) == [day |-> d, startTime |-> s, endTime |-> e]
TuesdayEntry == AvailabilityEntry("tuesday", 480, 540)
\* availability lists of doctor d1: at most one entry per weekday
AvailabilityOptions ==
  {<<>>}
  \cup { <<TuesdayEntry, AvailabilityEntry("monday", s, e)>> : s \in StartTimes, e \in EndTimes }
DoctorsData == { [d \in DoctorIds |-> IF d = "d1" THEN a ELSE <<TuesdayEntry>>] : a \in AvailabilityOptions }
ApptIds == { "a1", "a2", "a3", "a4" }
ApptIdSeq == <<"a1", "a2", "a3", "a4">>
Appointment(id, doc, pat, d, t, st) ==
  [_id |-> id, doctor |-> doc, patient |-> pat, date |-> d, time |-> t, status |-> st]
\* the appointments a fetched list can hold, numbered: doctor reference, date, status
RefSeq == <<DoctorRef(TRUE, "d1"), DoctorRef(FALSE, "d1"), DoctorRef(FALSE, "d2")>>
StatusSeq == <<"confirmed", "cancelled">>
NumListed == (MaxDay + 1) * 6
ListedAppointment(id, k) ==
  Appointment(id, RefSeq[(((k - 1) \div 2) % 3) + 1], "p1", (k - 1) \div 6, 540,
              StatusSeq[((k - 1) % 2) + 1])
\* the lists of at most n appointments, up to the order of their elements
AppointmentLists(n) ==
  UNION { { { ListedAppointment(ApptIdSeq[i], f[i]) : i \in 1..m } :
            f \in { g \in [1..m -> 1..NumListed] : \A i \in 1..m : \A j \in 1..m : i < j => g[i] <= g[j] } } :
          m \in 0..n }
\* instants the date picker can deliver: day 0 at midnight, a later day at 10:15
DateChoices == { ParseDate(d) + (IF d = 0 THEN 0 ELSE 615 * MsPerMinute) : d \in Days }

(***************************************************************************)
(* Appointments, requests and answers                                      *)
(***************************************************************************)
NoAppointment == Appointment("", DoctorRef(FALSE, ""), "", 0, 0, "")
\* formData.reason: the length of its text and of the white space around it
Reason(text, pad) == [text |-> text, pad |-> pad]
NoReason == Reason(0, 0)
\* reason.trim().length, reason.length
TrimmedLength(r) == r.text
RawLength(r) == IF r.text = 0 THEN r.pad ELSE r.text + r.pad
EmptyForm == [doctorId |-> "", reason |-> NoReason, patientId |-> ""]

\* formData.doctorId || formData.reason || selectedDate || selectedTime
FormFilled ==
  formData.doctorId # "" \/ RawLength(formData.reason) > 0
  \/ selectedDate # NoInstant \/ selectedTime # NoInstant

\* a request of one of the mutations; 'reason' is the length of the reason it
\* carries (0 when it carries none).  'shown', 'free' and 'filled' record the
\* render in which the request was made: the status the row displayed,
\* whether the fetched list had the slot free, and what handleCloseDialog of
\* that render (the one the mutation's callbacks hold) sees of the form
Req(kind, id, doctorId, patientId, date, time, status, shown, free) ==
  [kind |-> kind, id |-> id, doctorId |-> doctorId, patientId |-> patientId,
   date |-> date, time |-> time, status |-> status, shown |-> shown, free |-> free,
   filled |-> FormFilled, reason |-> 0]
\* updateAppointment.mutate({ id, appointment: { status } })
StatusReq(app, to) == Req("update", app._id, "", "", 0, 0, to, app.status, TRUE)
\* cancelAppointment.mutate(id): PUT /appointments/:id/cancel
CancelReq(app) == Req("cancel", app._id, "", "", 0, 0, "cancelled", app.status, TRUE)

\* appointmentService.archiveAppointment(id): PUT /appointments/:id/archive
ArchiveReq(app) == Req("archive", app._id, "", "", 0, 0, "archived", app.status, TRUE)

\* the body of an answer
Body(kind, from, to) == [kind |-> kind, from |-> from, to |-> to]

\* react-query runs onSuccess when the mutation function resolves, which
\* apiService does for every status validateStatus accepts
MutationPath(status) == IF status # 0 /\ ValidateStatus(status) THEN "onSuccess" ELSE "onError"

(***************************************************************************)
(* The back end, with the behaviour the specification states for it        *)
(***************************************************************************)
TransitionTable(from) ==
  CASE from = "pending" -> {"confirmed", "cancelled"}
    [] from = "confirmed" -> {"completed", "no-show", "cancelled"}
    [] from \in {"completed", "cancelled", "no-show"} -> {"archived"}
    [] OTHER -> {}
\* cancelling is open to the patient and the doctor, the rest to the doctor
RoleMay(role, to) == IF to = "cancelled" THEN role \in {"patient", "doctor"} ELSE role = "doctor"
\* a non-cancelled appointment holds the slot
SlotTaken(store, doctorId, date, time, exceptId) ==
  \E a \in store : /\ a._id # exceptId
                   /\ a.doctor.id = doctorId /\ a.date = date /\ a.time = time
                   /\ a.status # "cancelled"
FindById(store, id) ==
  IF \E a \in store : a._id = id THEN CHOOSE a \in store : a._id = id ELSE NoAppointment
SrvAnswer(store, status, body) == [store |-> store, status |-> status, body |-> body]
\* the server handles request req of user u on its appointments
ServerHandle(store, req, u) ==
  IF req.kind = "create"
  THEN IF SlotTaken(store, req.doctorId, req.date, req.time, "")
       THEN SrvAnswer(store, 409, Body("SlotConflict", "", ""))
       ELSE SrvAnswer(store \cup { Appointment(ApptIdSeq[Cardinality(store) + 1], DoctorRef(FALSE, req.doctorId),
                                               IF req.patientId # "" THEN req.patientId ELSE u._id,
                                               req.date, req.time, "pending") },
                      201, Body("Appointment", "", "pending"))
  ELSE LET cur == FindById(store, req.id)
       IN IF cur = NoAppointment THEN SrvAnswer(store, 404, Body("NotFound", "", ""))
          ELSE IF req.kind = "edit"
          THEN IF SlotTaken(store, req.doctorId, req.date, req.time, req.id)
               THEN SrvAnswer(store, 409, Body("SlotConflict", "", ""))
               ELSE SrvAnswer((store \ {cur}) \cup { [cur EXCEPT !.date = req.date, !.time = req.time] },
                              200, Body("Appointment", cur.status, cur.status))
          ELSE IF req.kind = "archive" /\ cur.status = "archived"
          THEN SrvAnswer(store, 200, Body("Appointment", cur.status, cur.status))
          ELSE IF req.status \notin TransitionTable(cur.status)
          THEN SrvAnswer(store, 409, Body("InvalidTransition", cur.status, req.status))
          ELSE IF ~RoleMay(u.role, req.status)
          THEN SrvAnswer(store, 403, Body("Forbidden", cur.status, req.status))
          ELSE SrvAnswer((store \ {cur}) \cup { [cur EXCEPT !.status = req.status] },
                         200, Body("Appointment", cur.status, req.status))
\* archived appointments are retained but left out of the active list
ActiveList(store) == { a \in store : a.status # "archived" }
\* GET /appointments with the filter of the user's role
ClientView(store, u) ==
  { a \in ActiveList(store) : IF u.role = "doctor" THEN a.doctor.id = u._id ELSE a.patient = u._id }

(***************************************************************************)
(* AppointmentList: validation and the conditions of the row buttons       *)
(***************************************************************************)
\* validateForm: the errors it sets (key and message) and the form data it leaves
ValidateForm(u, fd, selDate, selTime, nowT) ==
  LET isDoctor == u # NoUser /\ u.role = "doctor" /\ u._id # ""
      fd2 == IF isDoctor /\ fd.doctorId # u._id THEN [fd EXCEPT !.doctorId = u._id] ELSE fd
      early == IF isDoctor
               THEN (IF fd.patientId = "" THEN { <<"patientId", "required">> } ELSE {})
               ELSE (IF fd.doctorId = "" THEN { <<"general", "doctor">> } ELSE {})
      dateErr == IF selDate = NoInstant THEN { <<"date", "required">> }
                 ELSE IF IsBeforeDay(selDate, nowT) THEN { <<"date", "past">> }
                 ELSE {}
      timeErr == IF selTime = NoInstant THEN { <<"time", "required">> }
                 ELSE IF Minute(selTime) % 30 # 0 THEN { <<"time", "interval">> }
                 ELSE IF Hour(selTime) < 8 \/ Hour(selTime) >= 17 THEN { <<"time", "hours">> }
                 ELSE IF selDate # NoInstant /\ IsSameDay(selDate, nowT) /\ IsBefore(selTime, nowT)
                      THEN { <<"time", "past">> }
                 ELSE {}
      reasonErr == IF TrimmedLength(fd.reason) = 0 THEN { <<"reason", "required">> }
                   ELSE IF RawLength(fd.reason) < 10 THEN { <<"reason", "short">> }
                   ELSE IF RawLength(fd.reason) > 500 THEN { <<"reason", "long">> }
                   ELSE {}
      errors == IF early # {} THEN early ELSE dateErr \cup timeErr \cup reasonErr
  IN [ok |-> errors = {}, errors |-> errors, formData |-> fd2]

\* /^([0-1]?[0-9]|2[0-3]):[0-5][0-9]$/ on the formatted time
TimeFormatOk(m) == (m \div 60) \in 0..23 /\ (m % 60) \in 0..59

\* the edit and cancel icons of a row
CanCancel_AlsoConfirmed(app) == app.status \in {"pending", "confirmed"}

CanCancel(app) == app.status = "pending"
\* the Confirmar button
CanConfirm(u, app) == u # NoUser /\ u.role = "doctor" /\ app.status = "pending"
\* the Completada and No tomada buttons
CanComplete_NoDayUnit(u, app, nowT) ==
  u # NoUser /\ u.role = "doctor" /\ app.status = "confirmed" /\ IsBefore(ParseDate(app.date), nowT)

CanComplete(u, app, nowT) ==
  u # NoUser /\ u.role = "doctor" /\ app.status = "confirmed" /\ IsBeforeDay(ParseDate(app.date), nowT)

\* the Archivar button
CanArchive_AnyRole(u, app) == app.status \in {"completed", "cancelled", "no-show"}

CanArchive(u, app) ==
  u # NoUser /\ u.role = "doctor" /\ app.status \in {"completed", "cancelled", "no-show"}
\* the component before anything was opened or sent, over server data store
ApptsAtRest(store, open) ==
  /\ srvAppointments = store
  /\ openDialog = open
  /\ confirmActionDialog = FALSE
  /\ confirmCancelDialog = FALSE
  /\ appointmentToCancel = NoAppointment
  /\ editingAppointment = NoAppointment
  /\ formError = {}
  /\ errorTimer = FALSE
  /\ inFlight = EmptyBag
  /\ loadingUser = FALSE
  /\ checkAuthThen = "none"

(***************************************************************************)
(* AppointmentList: form events.  Every event ends with the effects.       *)
(***************************************************************************)
Render_StaleTimes(docs, fd, selDate, appts) ==
  LET fd2 == Preselect(fd, user)
      doc == FindDoctor(docs, fd2.doctorId)
  IN /\ doctors' = docs
     /\ formData' = fd2
     /\ selectedDate' = selDate
     /\ appointments' = appts
     /\ selectedDoctor' = doc
     /\ availableTimes' = availableTimes

Render(docs, fd, selDate, appts) ==
  LET fd2 == Preselect(fd, user)
      doc == FindDoctor(docs, fd2.doctorId)
  IN /\ doctors' = docs
     /\ formData' = fd2
     /\ selectedDate' = selDate
     /\ appointments' = appts
     /\ selectedDoctor' = doc
     /\ availableTimes' = ComputeAvailableTimes(docs, doc, selDate, appts, now)

\* the doctor select's onChange (the select is disabled for a doctor user)
ChangeDoctor(d) ==
  /\ openDialog /\ ~confirmActionDialog
  /\ user # NoUser /\ user.role # "doctor"
  /\ Render(doctors, [formData EXCEPT !.doctorId = d], selectedDate, appointments)
  /\ UNCHANGED <<now, user, selectedTime, authVars, archVars, apptVars>>

\* the date picker's onChange
ChangeDate(v) ==
  /\ openDialog /\ ~confirmActionDialog
  /\ Render(doctors, formData, v, appointments)
  /\ UNCHANGED <<now, user, selectedTime, authVars, archVars, apptVars>>

vars == <<now, user, slotVars, authVars, archVars, apptVars>>

(***************************************************************************)
(* SpecSlots: the available-times computation over all its inputs          *)
(***************************************************************************)
InitSlots ==
  /\ now = ParseDate(0) + 600 * MsPerMinute
  /\ user \in Users
  /\ doctors \in DoctorsData
  /\ appointments \in AppointmentLists(MaxAppts)
  /\ formData = Preselect(EmptyForm, user)
  /\ selectedDoctor = FindDoctor(doctors, formData.doctorId)
  /\ selectedDate = NoInstant
  /\ selectedTime = NoInstant
  /\ availableTimes = <<>>
  /\ AuthAtRest([EmptyStorage EXCEPT !.token = IssuedToken(user), !.userId = user._id,
                                     !.userRole = user.role], FALSE, {user})
  /\ ApptsAtRest({}, TRUE)

NextSlots ==
  \/ \E d \in DoctorIds \cup {""} : ChangeDoctor(d)
  \/ \E v \in DateChoices \cup {NoInstant} : ChangeDate(v)

SpecSlots == InitSlots /\ [][NextSlots]_vars

(***************************************************************************)
(* AuthProvider.login, register, logout                                    *)
(***************************************************************************)
\* what the server can answer to /login and /register
AuthResponses(url) ==
  UNION { { Response(url, 200, u, IssuedToken(u)), Response(url, 200, u, NoToken) } : u \in ServerUsers }
  \cup { Response(url, st, NoUser, NoToken) : st \in {0, IF url = "/login" THEN 401 ELSE 409} }

\* authService.login / authService.register: the plain axios instance and the
\* check of the body
AuthSettle(resp) ==
  IF resp.status # 0 /\ ValidateStatusDefault(resp.status)
     /\ resp.token # NoToken /\ resp.user # NoUser
  THEN Fulfilled(resp.user, resp.token)
  ELSE Rejected(resp.status # 0 /\ ~ValidateStatusDefault(resp.status), resp.status)

\* login(data), up to the request; inputOk is the outcome of its validation
LoginStart(inputOk) ==
  /\ checkAuthCalls > 0
  /\ loginPc = "idle"
  /\ user = NoUser
  /\ IF inputOk
     THEN /\ localStorage' = EmptyStorage
          /\ authError' = ""
          /\ loading' = TRUE
          /\ loginPc' = "login"
          /\ lastRequest' = Request("/login", AuthorizationHeader(localStorage', "/login"),
                                    1 - lastRequest.seq)
     ELSE /\ localStorage' = [EmptyStorage EXCEPT !.redirectAfterLogin = localStorage.redirectAfterLogin]
          /\ authError' = "validation"
          /\ loading' = FALSE
          /\ UNCHANGED <<loginPc, lastRequest>>
  /\ UNCHANGED <<now, user, checkAuthPc, checkAuthResult, checkAuthCalls, retryCount,
                 verifyPromise, verifyRequest, timeoutPromise, purgedToken, served, slotVars, apptVars, archVars>>

\* register(data), up to the request
RegisterStart(inputOk) ==
  /\ checkAuthCalls > 0
  /\ loginPc = "idle"
  /\ user = NoUser
  /\ localStorage' = EmptyStorage
  /\ IF inputOk
     THEN /\ authError' = ""
          /\ loading' = TRUE
          /\ loginPc' = "register"
          /\ lastRequest' = Request("/register", AuthorizationHeader(localStorage', "/register"),
                                    1 - lastRequest.seq)
     ELSE /\ authError' = "validation"
          /\ loading' = FALSE
          /\ UNCHANGED <<loginPc, lastRequest>>
  /\ UNCHANGED <<now, user, checkAuthPc, checkAuthResult, checkAuthCalls, retryCount,
                 verifyPromise, verifyRequest, timeoutPromise, purgedToken, served, slotVars, apptVars, archVars>>

\* LoginForm.handleSubmit: the 8 second timer wins the race against login();
\* the form shows its error and is enabled again, login() goes on waiting
LoginFormTimeout ==
  /\ loginPc = "login"
  /\ loginPc' = "timedOut"
  /\ UNCHANGED <<now, user, localStorage, loading, authError, checkAuthPc, checkAuthResult,
                 checkAuthCalls, retryCount, verifyPromise, verifyRequest, timeoutPromise,
                 lastRequest, purgedToken, served, slotVars, apptVars, archVars>>

\* the answer to /login arrives
LoginSettles(resp) ==
  /\ loginPc \in {"login", "timedOut"}
  /\ LET o == AuthSettle(resp)
     IN IF o.state = "fulfilled"
        THEN /\ localStorage' = [localStorage EXCEPT !.token = o.token, !.userId = o.user._id,
                                                     !.userRole = o.user.role]
             /\ user' = o.user
             /\ purgedToken' = NoToken
             /\ UNCHANGED authError
        ELSE /\ authError' = "login"
             /\ UNCHANGED <<localStorage, user, purgedToken>>
  /\ served' = served \cup Delivered({resp})
  /\ loading' = FALSE
  /\ loginPc' = "idle"
  /\ UNCHANGED <<now, checkAuthPc, checkAuthResult, checkAuthCalls, retryCount, verifyPromise, verifyRequest,
                 timeoutPromise, lastRequest, slotVars, apptVars, archVars>>

\* the answer to /register arrives
RegisterSettles(resp) ==
  /\ loginPc = "register"
  /\ LET o == AuthSettle(resp)
     IN IF o.state = "fulfilled"
        THEN /\ localStorage' = [localStorage EXCEPT !.token = o.token]
             /\ user' = o.user
             /\ purgedToken' = NoToken
             /\ UNCHANGED authError
        ELSE /\ authError' = "register"
             /\ UNCHANGED <<localStorage, user, purgedToken>>
  /\ served' = served \cup Delivered({resp})
  /\ loading' = FALSE
  /\ loginPc' = "idle"
  /\ UNCHANGED <<now, checkAuthPc, checkAuthResult, checkAuthCalls, retryCount, verifyPromise, verifyRequest,
                 timeoutPromise, lastRequest, slotVars, apptVars, archVars>>

Logout ==
  /\ user # NoUser
  /\ localStorage' = [localStorage EXCEPT !.token = NoToken]
  /\ user' = NoUser
  /\ authError' = ""
  /\ UNCHANGED <<now, loading, checkAuthPc, checkAuthResult, checkAuthCalls, retryCount,
                 verifyPromise, verifyRequest, timeoutPromise, loginPc, lastRequest,
                 purgedToken, served, slotVars, apptVars, archVars>>

\* the props of a route: roles (given or not) and requireAuth
Route(path, rolesGiven, roles, requireAuth) ==
  [path |-> path, rolesGiven |-> rolesGiven, roles |-> roles, requireAuth |-> requireAuth]
\* the routes of App that are wrapped in ProtectedRoute
Routes ==
  { Route("/login", FALSE, {}, FALSE), Route("/register", FALSE, {}, FALSE),
    Route("/appointments", FALSE, {}, TRUE), Route("/availability", TRUE, {"doctor"}, TRUE),
    Route("/appointments/archived", FALSE, {}, TRUE), Route("/", FALSE, {}, TRUE) }

\* a route guard that skips the test of the role
ProtectedRoute_NoRoles(u, ld, rt) ==
  IF ld THEN "spinner"
  ELSE IF rt.requireAuth /\ u = NoUser THEN "/login"
  ELSE IF ~rt.requireAuth /\ u # NoUser THEN "/appointments"
  ELSE "children"

\* ProtectedRoute: what it renders, a spinner, a redirect or its children
ProtectedRoute(u, ld, rt) ==
  IF ld THEN "spinner"
  ELSE IF rt.requireAuth /\ u = NoUser THEN "/login"
  ELSE IF rt.rolesGiven /\ u # NoUser /\ u.role \notin rt.roles THEN "/unauthorized"
  ELSE IF ~rt.requireAuth /\ u # NoUser THEN "/appointments"
  ELSE "children"

\* a component behind ProtectedRoute sends a request through apiService
ApiRequest(url) ==
  /\ user # NoUser
  /\ ~loading
  /\ lastRequest' = Request(url, AuthorizationHeader(localStorage, url), 1 - lastRequest.seq)
  /\ UNCHANGED <<now, user, localStorage, loading, authError, checkAuthPc, checkAuthResult,
                 checkAuthCalls, retryCount, verifyPromise, verifyRequest, timeoutPromise, loginPc,
                 purgedToken, served, slotVars, apptVars, archVars>>

\* time passes
TickMs == 1000
Tick ==
  /\ now + TickMs < MaxTicks * TickMs
  /\ now' = now + TickMs
  /\ UNCHANGED <<user, authVars, archVars, slotVars, apptVars>>

\* the page is loaded with whatever an earlier visit left in localStorage
InitAuth ==
  /\ now = 0
  /\ user = NoUser
  /\ \E tok \in StoredTokens \cup {NoToken} :
        AuthAtRest([EmptyStorage EXCEPT !.token = tok, !.redirectAfterLogin = "/appointments"], TRUE, {})
  /\ doctors = <<>>
  /\ appointments = {}
  /\ formData = EmptyForm
  /\ selectedDoctor = NULL
  /\ selectedDate = NoInstant
  /\ selectedTime = NoInstant
  /\ availableTimes = <<>>
  /\ ApptsAtRest({}, FALSE)

NextAuth ==
  \/ CheckAuthStart
  \/ ServerAnswersVerify
  \/ TimeoutFires
  \/ DelayElapses
  \/ \E ok \in BOOLEAN : LoginStart(ok)
  \/ LoginFormTimeout
  \/ \E resp \in AuthResponses("/login") : LoginSettles(resp)
  \/ \E ok \in BOOLEAN : RegisterStart(ok)
  \/ \E resp \in AuthResponses("/register") : RegisterSettles(resp)
  \/ Logout
  \/ \E url \in {"/appointments", "/doctors"} : ApiRequest(url)
  \/ Tick

SpecAuth == InitAuth /\ [][NextAuth]_vars

(***************************************************************************)
(* SpecArchivedAuth: ArchivedAppointmentList rendered without a user       *)
(***************************************************************************)
\* the effect on [user, loadingUser, checkAuth]: with no user and loadingUser
\* false it sets loadingUser and calls checkAuth().  setLoadingUser(true)
\* changes a dependency, so the render it causes runs the cleanup of this run
\* (isMounted = false) long before a server answer can arrive.  When
\* checkAuth() returned without awaiting, its then() is a microtask already
\* queued, which runs before or after that render depending on how React
\* flushes an update made inside an effect.
ArchivedAuthEffect ==
  /\ user = NoUser
  /\ ~loadingUser
  /\ CheckAuth
  /\ loadingUser' = TRUE
  /\ checkAuthThen' \in IF checkAuthPc' = "idle" THEN {"mounted", "unmounted"} ELSE {"unmounted"}

\* checkAuth().then(() => { if (isMounted) setLoadingUser(false) })
ArchivedAuthThen ==
  /\ checkAuthThen # "none"
  /\ checkAuthPc = "idle"
  /\ loadingUser' = IF checkAuthThen = "mounted" THEN FALSE ELSE loadingUser
  /\ checkAuthThen' = "none"
  /\ UNCHANGED <<now, user, authVars, slotVars, apptVars>>

NextArchivedAuth ==
  \/ ArchivedAuthEffect
  \/ ServerAnswersVerify
  \/ TimeoutFires
  \/ DelayElapses
  \/ ArchivedAuthThen
  \/ Tick

SpecArchivedAuth == InitAuth /\ [][NextArchivedAuth]_vars

(***************************************************************************)
(* AppointmentList: the dialogs, the form and the row buttons              *)
(***************************************************************************)
NoModal == ~openDialog /\ ~confirmActionDialog /\ ~confirmCancelDialog
FormActive == openDialog /\ ~confirmActionDialog
\* createAppointment.isLoading || updateAppointment.isLoading, cancelAppointment.isLoading
SaveLoading == \E r \in BagToSet(inFlight) : r.kind \in {"create", "edit", "update"}
CancelLoading == \E r \in BagToSet(inFlight) : r.kind = "cancel"
\* mutation.mutate(variables): the request goes out
Mutate(req) ==
  /\ BagCardinality(inFlight) < MaxInFlight
  /\ inFlight' = inFlight (+) SetToBag({req})
CloseDialogAndReset ==
  /\ openDialog' = FALSE
  /\ Render(doctors, EmptyForm, NoInstant, appointments)
  /\ selectedTime' = NoInstant
  /\ editingAppointment' = NoAppointment
  /\ formError' = {}
  /\ confirmActionDialog' = FALSE

\* handleCloseDialog of a render whose form was filled or not, followed by
\* setting error to err when the form stays
HandleCloseDialog(filled, err) ==
  IF filled
  THEN /\ confirmActionDialog' = TRUE
       /\ formError' = err
       /\ UNCHANGED <<openDialog, editingAppointment, slotVars>>
  ELSE CloseDialogAndReset

\* the 'Nueva Cita' button, disabled without a user
HandleOpenDialog ==
  /\ NoModal
  /\ user # NoUser
  /\ openDialog' = TRUE
  /\ UNCHANGED <<now, user, authVars, archVars, slotVars, confirmActionDialog, confirmCancelDialog,
                 appointmentToCancel, editingAppointment, formError, errorTimer,
                 srvAppointments, inFlight>>

\* the Cancelar button and the backdrop of the form dialog
ClickCloseDialog ==
  /\ FormActive
  /\ HandleCloseDialog(FormFilled, formError)
  /\ UNCHANGED <<now, user, authVars, archVars, confirmCancelDialog, appointmentToCancel, errorTimer,
                 srvAppointments, inFlight>>

\* the buttons of the discard-changes dialog
ClickDiscard ==
  /\ confirmActionDialog
  /\ CloseDialogAndReset
  /\ UNCHANGED <<now, user, authVars, archVars, confirmCancelDialog, appointmentToCancel, errorTimer,
                 srvAppointments, inFlight>>

ClickKeepEditing ==
  /\ confirmActionDialog
  /\ confirmActionDialog' = FALSE
  /\ UNCHANGED <<now, user, authVars, archVars, slotVars, openDialog, confirmCancelDialog,
                 appointmentToCancel, editingAppointment, formError, errorTimer,
                 srvAppointments, inFlight>>

\* the time picker's onChange: the clock offers the times of availableTimes
ChangeTime(m) ==
  /\ FormActive
  /\ \E i \in 1..Len(availableTimes) : availableTimes[i] = m
  /\ selectedTime' = ParseHHmm(m, now)
  /\ UNCHANGED <<now, user, authVars, archVars, apptVars, doctors, formData, selectedDoctor, selectedDate,
                 appointments, availableTimes>>

ChangeReason(r) ==
  /\ FormActive
  /\ Render(doctors, [formData EXCEPT !.reason = r], selectedDate, appointments)
  /\ UNCHANGED <<now, user, selectedTime, authVars, archVars, apptVars>>

\* the request handleSubmit builds from the form
SubmitReq ==
  LET t == FormatHHmm(selectedTime)
      free == ~HasAppointment(appointments, t, selectedDate, formData.doctorId)
      data == IF editingAppointment # NoAppointment
              THEN Req("edit", editingAppointment._id, formData.doctorId, "",
                       FormatDate(selectedDate), t, "", editingAppointment.status, free)
              ELSE Req("create", "", formData.doctorId,
                       IF user.role = "doctor" /\ formData.patientId # ""
                       THEN formData.patientId ELSE "",
                       FormatDate(selectedDate), t, "", "", free)
  IN [data EXCEPT !.reason = TrimmedLength(formData.reason)]

HandleSubmit ==
  /\ FormActive
  /\ ~SaveLoading
  /\ LET v == ValidateForm(user, formData, selectedDate, selectedTime, now)
     IN /\ Render(doctors, v.formData, selectedDate, appointments)
        /\ IF ~v.ok
           THEN /\ formError' = v.errors
                /\ UNCHANGED inFlight
           ELSE IF ~TimeFormatOk(FormatHHmm(selectedTime))
           THEN /\ formError' = { <<"time", "format">> }
                /\ UNCHANGED inFlight
           ELSE /\ formError' = {}
                /\ Mutate(SubmitReq)
  /\ UNCHANGED <<now, user, selectedTime, authVars, archVars, openDialog, confirmActionDialog,
                 confirmCancelDialog, appointmentToCancel, editingAppointment, errorTimer,
                 srvAppointments>>

RowUnchanged ==
  UNCHANGED <<now, user, authVars, archVars, slotVars, openDialog, confirmActionDialog, confirmCancelDialog,
              appointmentToCancel, editingAppointment, formError, errorTimer, srvAppointments>>

ClickConfirm(app) ==
  /\ NoModal
  /\ app \in appointments
  /\ CanConfirm(user, app)
  /\ Mutate(StatusReq(app, "confirmed"))
  /\ RowUnchanged

ClickCompleted(app) ==
  /\ NoModal
  /\ app \in appointments
  /\ CanComplete(user, app, now)
  /\ Mutate(StatusReq(app, "completed"))
  /\ RowUnchanged

ClickNoShow(app) ==
  /\ NoModal
  /\ app \in appointments
  /\ CanComplete(user, app, now)
  /\ Mutate(StatusReq(app, "no-show"))
  /\ RowUnchanged

ClickArchive(app) ==
  /\ NoModal
  /\ app \in appointments
  /\ CanArchive(user, app)
  /\ Mutate(ArchiveReq(app))
  /\ RowUnchanged

HandleCancelClick(app) ==
  /\ NoModal
  /\ app \in appointments
  /\ CanCancel(app)
  /\ appointmentToCancel' = app
  /\ confirmCancelDialog' = TRUE
  /\ UNCHANGED <<now, user, authVars, archVars, slotVars, openDialog, confirmActionDialog,
                 editingAppointment, formError, errorTimer, srvAppointments, inFlight>>

HandleConfirmCancel ==
  /\ confirmCancelDialog
  /\ ~CancelLoading
  /\ IF appointmentToCancel # NoAppointment
     THEN Mutate(CancelReq(appointmentToCancel))
     ELSE UNCHANGED inFlight
  /\ confirmCancelDialog' = FALSE
  /\ appointmentToCancel' = NoAppointment
  /\ UNCHANGED <<now, user, authVars, archVars, slotVars, openDialog, confirmActionDialog,
                 editingAppointment, formError, errorTimer, srvAppointments>>

\* onClose and the 'No' button of the cancel dialog
CloseCancelDialog ==
  /\ confirmCancelDialog
  /\ confirmCancelDialog' = FALSE
  /\ UNCHANGED <<now, user, authVars, archVars, slotVars, openDialog, confirmActionDialog,
                 appointmentToCancel, editingAppointment, formError, errorTimer,
                 srvAppointments, inFlight>>

(***************************************************************************)
(* The network and the other sessions                                      *)
(***************************************************************************)
\* the then and catch of the Archivar button: the error shown afterwards
\* ('Error al archivar cita: ' and the message of the failure)
ArchiveMessage(st) ==
  CASE st = 0 -> "archive: network"
    [] st = 500 -> "archive: status 500"
    [] OTHER -> "archive: rejected"

ArchiveSettled_AlwaysCatch(path, st, err) == { <<"general", ArchiveMessage(st)>> }

ArchiveSettled(path, st, err) ==
  IF path = "onSuccess" THEN err ELSE { <<"general", ArchiveMessage(st)>> }

\* request req is answered (st = 200: by the server; 0: no answer; 500: a
\* server fault) and the callbacks of its mutation run
ServerHandles(req, st) ==
  /\ BagIn(req, inFlight)
  /\ LET ans == IF st = 200 THEN ServerHandle(srvAppointments, req, user)
                ELSE SrvAnswer(srvAppointments, st, Body("", "", ""))
         path == MutationPath(ans.status)
     IN /\ ans.store # srvAppointments => Cardinality(ans.store) <= MaxAppts
        /\ srvAppointments' = ans.store
        /\ inFlight' = inFlight (-) SetToBag({req})
        /\ IF req.kind = "archive"
           THEN /\ formError' = ArchiveSettled(path, st, formError)
                /\ UNCHANGED <<errorTimer, openDialog, confirmActionDialog, editingAppointment,
                               slotVars>>
           ELSE IF req.kind = "cancel"
           THEN IF path = "onSuccess"
                THEN UNCHANGED <<formError, errorTimer, openDialog, confirmActionDialog,
                                 editingAppointment, slotVars>>
                ELSE /\ formError' = { <<"general", "server">> }
                     /\ errorTimer' = TRUE
                     /\ UNCHANGED <<openDialog, confirmActionDialog, editingAppointment, slotVars>>
           ELSE IF path = "onSuccess"
                THEN /\ HandleCloseDialog(req.filled, {})
                     /\ UNCHANGED errorTimer
                ELSE /\ formError' = { <<"general", "server">> }
                     /\ UNCHANGED <<errorTimer, openDialog, confirmActionDialog,
                                    editingAppointment, slotVars>>
  /\ UNCHANGED <<now, user, authVars, archVars, confirmCancelDialog, appointmentToCancel>>

ServerAnswers ==
  \E req \in BagToSet(inFlight), st \in {0, 200, 500} : ServerHandles(req, st)

\* setTimeout(() => setError({}), 5000) of the cancel mutation
ErrorTimerFires ==
  /\ errorTimer
  /\ errorTimer' = FALSE
  /\ formError' = {}
  /\ UNCHANGED <<now, user, authVars, archVars, slotVars, openDialog, confirmActionDialog,
                 confirmCancelDialog, appointmentToCancel, editingAppointment,
                 srvAppointments, inFlight>>

\* the 'appointments' query fetches again
Refetch ==
  /\ user # NoUser
  /\ appointments # ClientView(srvAppointments, user)
  /\ Render(doctors, formData, selectedDate, ClientView(srvAppointments, user))
  /\ UNCHANGED <<now, user, selectedTime, authVars, archVars, apptVars>>

EnvUnchanged ==
  UNCHANGED <<now, user, authVars, archVars, slotVars, openDialog, confirmActionDialog, confirmCancelDialog,
              appointmentToCancel, editingAppointment, formError, errorTimer, inFlight>>

\* another session books a slot
OtherBooks(pat, doctorId, date, time) ==
  /\ Cardinality(srvAppointments) < MaxAppts
  /\ srvAppointments' = ServerHandle(srvAppointments,
                                     Req("create", "", doctorId, "", date, time, "", "", TRUE),
                                     [_id |-> pat, role |-> "patient"]).store
  /\ srvAppointments' # srvAppointments
  /\ EnvUnchanged

\* another session (the patient's, the doctor's) changes a status
OtherTransition(id, to, role) ==
  /\ srvAppointments' = ServerHandle(srvAppointments,
                                     Req("update", id, "", "", 0, 0, to, "", TRUE),
                                     [_id |-> "other", role |-> role]).store
  /\ srvAppointments' # srvAppointments
  /\ EnvUnchanged

\* a day passes
TickDay ==
  /\ FormatDate(now) < MaxDay
  /\ now' = now + MsPerDay
  /\ UNCHANGED <<user, authVars, archVars, slotVars, apptVars>>

(***************************************************************************)
(* SpecStatus: the row buttons against the back end and other sessions     *)
(***************************************************************************)
LoggedIn ==
  AuthAtRest([EmptyStorage EXCEPT !.token = IssuedToken(user), !.userId = user._id,
                                  !.userRole = user.role], FALSE, {user})
\* d1 works on Mondays 08:00-10:00 and Tuesdays 08:30-09:30, d2 on Tuesdays
\* 09:00-10:00
ClinicDoctors ==
  [d \in DoctorIds |-> IF d = "d1" THEN <<AvailabilityEntry("tuesday", 510, 570),
                                           AvailabilityEntry("monday", 480, 600)>>
                       ELSE <<AvailabilityEntry("tuesday", 540, 600)>>]
\* the kinds of appointment stored at the start: date and status
StoredKinds == << <<0, "pending">>, <<0, "confirmed">>, <<1, "confirmed">> >>
\* the i-th stored appointment: 08:30 for the first, 09:00 for the second, ...
StoredAppointment(kinds, i, k) ==
  Appointment(ApptIdSeq[i], DoctorRef(FALSE, "d1"), "p1", kinds[k][1], 480 + 30 * i,
              kinds[k][2])
\* what the server holds at the start: at most n appointments of d1 with p1
StatusStores(kinds, n) ==
  UNION { { { StoredAppointment(kinds, i, f[i]) : i \in 1..m } :
            f \in { g \in [1..m -> 1..Len(kinds)] : \A i \in 1..m : \A j \in 1..m : i < j => g[i] <= g[j] } } :
          m \in 0..n }

InitComponent(store) ==
  /\ now = ParseDate(0) + 600 * MsPerMinute
  /\ user \in Users
  /\ doctors = ClinicDoctors
  /\ appointments = ClientView(store, user)
  /\ formData = Preselect(EmptyForm, user)
  /\ selectedDoctor = FindDoctor(doctors, formData.doctorId)
  /\ selectedDate = NoInstant
  /\ selectedTime = NoInstant
  /\ availableTimes = <<>>
  /\ LoggedIn
  /\ ApptsAtRest(store, FALSE)

InitStatus == \E store \in StatusStores(StoredKinds, MaxStored) : InitComponent(store)

NextStatus ==
  \/ \E id \in ApptIds : ClickConfirm(FindById(appointments, id))
  \/ \E id \in ApptIds : ClickCompleted(FindById(appointments, id))
  \/ \E id \in ApptIds : ClickNoShow(FindById(appointments, id))
  \/ \E id \in ApptIds : HandleCancelClick(FindById(appointments, id))
  \/ HandleConfirmCancel
  \/ CloseCancelDialog
  \/ ServerAnswers
  \/ ErrorTimerFires
  \/ ClickDiscard
  \/ ClickKeepEditing
  \/ Refetch
  \/ \E id \in ApptIds : OtherTransition(id, "confirmed", "doctor")
  \/ \E id \in ApptIds : OtherTransition(id, "cancelled", "patient")
  \/ TickDay

SpecStatus == InitStatus /\ [][NextStatus]_vars

(***************************************************************************)
(* SpecArchive: the Archivar button against the back end                   *)
(***************************************************************************)
\* the kinds of appointment stored at the start: resolved ones, one still
\* confirmed and one already archived
ResolvedKinds == << <<0, "completed">>, <<0, "cancelled">>, <<0, "no-show">>,
                    <<0, "confirmed">>, <<0, "archived">> >>

InitArchive == \E store \in StatusStores(ResolvedKinds, MaxStored + 1) : InitComponent(store)

NextArchive ==
  \/ \E id \in ApptIds : ClickArchive(FindById(appointments, id))
  \/ ServerAnswers
  \/ Refetch
  \/ \E id \in ApptIds : OtherTransition(id, "archived", "doctor")
  \/ \E id \in ApptIds : OtherTransition(id, "completed", "doctor")

SpecArchive == InitArchive /\ [][NextArchive]_vars

(***************************************************************************)
(* SpecBooking: the form dialog against the back end and another booker    *)
(***************************************************************************)
\* no reason, ten characters, five characters between five blanks
ReasonChoices == { NoReason, Reason(10, 0), Reason(5, 5) }

\* a patient's session; the appointments held at the start are confirmed
\* ones of the day after
InitBooking ==
  \E store \in StatusStores(StoredKinds, MaxStored) :
    /\ \A a \in store : a.status = "confirmed" /\ a.date = 1
    /\ InitComponent(store)
    /\ user.role = "patient"

NextBooking ==
  \/ HandleOpenDialog
  \/ \E d \in DoctorIds : ChangeDoctor(d)
  \/ \E v \in DateChoices : ChangeDate(v)
  \/ \E m \in ApptTimes : ChangeTime(m)
  \/ \E r \in ReasonChoices : ChangeReason(r)
  \/ HandleSubmit
  \/ ClickCloseDialog
  \/ ClickDiscard
  \/ ClickKeepEditing
  \/ ServerAnswers
  \/ Refetch
  \/ \E t \in ApptTimes : OtherBooks("p2", "d1", 1, t)

SpecBooking == InitBooking /\ [][NextBooking]_vars

(***************************************************************************)
(* SpecSnapshot: the slot computation against the cached appointment list  *)
(* while other sessions book                                               *)
(***************************************************************************)
\* the other sessions are another patient's and the user's own on a second
\* device
NextSnapshot ==
  \/ HandleOpenDialog
  \/ \E d \in DoctorIds : ChangeDoctor(d)
  \/ \E v \in DateChoices : ChangeDate(v)
  \/ Refetch
  \/ \E t \in ApptTimes : OtherBooks("p2", "d1", 1, t)
  \/ \E t \in ApptTimes : OtherBooks("p1", "d1", 1, t)

SpecSnapshot == InitStatus /\ [][NextSnapshot]_vars



Range(seq) == { seq[i] : i \in 1..Len(seq) }
\* the availability entry the selection refers to, or NULL
SelectedAvailability ==
  IF selectedDoctor = NULL \/ selectedDate = NoInstant THEN NoEntry
  ELSE IF \E i \in 1..Len(doctors[selectedDoctor]) :
            doctors[selectedDoctor][i].day = FormatWeekday(selectedDate)
       THEN CHOOSE e \in Range(doctors[selectedDoctor]) : e.day = FormatWeekday(selectedDate)
       ELSE NoEntry
\* the candidate times of an entry: the 30-minute grid from startTime, before endTime
Candidates(e) == { m \in 0..1439 : e.startTime <= m /\ m < e.endTime /\ (m - e.startTime) % 30 = 0 }
InOperatingHours(m) == 8 * 60 <= m /\ m < 17 * 60
\* an appointment of the list blocks time m for the selected doctor and date
Booked(m) ==
  /\ \E app \in appointments :
       /\ app.date = selectedDate \div MsPerDay
       /\ app.time = m
       /\ app.status # "cancelled"
       /\ app.doctor.id = selectedDoctor

\* C1: for the selected doctor and date, a candidate time inside operating
\* hours is missing from availableTimes if and only if the appointment list
\* holds a non-cancelled appointment with the same date, time and doctor,
\* the doctor being matched by identifier for a bare id and for an object.
C1_RemovedIffBooked ==
  SelectedAvailability # NoEntry =>
    \A m \in Candidates(SelectedAvailability) :
      InOperatingHours(m) => ((m \notin Range(availableTimes)) <=> Booked(m))

\* monday 08:00-10:00 with a confirmed 09:00 appointment yields 08:00, 08:30, 09:30
C1_Witness ==
  /\ SelectedAvailability = AvailabilityEntry("monday", 480, 600)
  /\ \E app \in appointments : app.status = "confirmed" /\ app.time = 540 /\ ~app.doctor.isString
  /\ availableTimes = <<480, 510, 570>>

\* C2: the slot sequence is strictly increasing, every slot t of it has
\* s <= t < e and (t - s) mod 30 = 0 for the availability entry (s, e) of the
\* selected doctor on the selected weekday, and it is empty when there is no
\* such entry or no doctor or date is selected.
C2_SlotsOnGrid ==
  /\ \A i \in 1..Len(availableTimes) : \A j \in 1..Len(availableTimes) :
       i < j => availableTimes[i] < availableTimes[j]
  /\ IF SelectedAvailability = NoEntry THEN availableTimes = <<>>
     ELSE \A i \in 1..Len(availableTimes) :
            /\ SelectedAvailability.startTime <= availableTimes[i]
            /\ availableTimes[i] < SelectedAvailability.endTime
            /\ (availableTimes[i] - SelectedAvailability.startTime) % 30 = 0

C2_Witness ==
  /\ SelectedAvailability # NoEntry
  /\ SelectedAvailability.startTime = 495
  /\ Len(availableTimes) >= 2

(***************************************************************************)
(* Properties of the token guard (SpecAuth)                                *)
(***************************************************************************)
\* the step in which checkAuth is called
CheckAuthCalled == checkAuthCalls' = checkAuthCalls + 1
TooLongOrNoSeparator(tok) == tok.length > 2000 \/ ~tok.hasDot
ExpiryNotInFuture(tok, nowT) == tok.expReadable /\ tok.exp * 1000 <= nowT
DeadToken(tok, nowT) == tok # NoToken /\ (TooLongOrNoSeparator(tok) \/ ExpiryNotInFuture(tok, nowT))

\* C5: when checkAuth finds the stored token malformed (longer than 2000 or
\* without '.') or expired (expiry not in the future), the token is gone from
\* storage when checkAuth returns false, and no request sent afterwards carries
\* that token in its Authorization header until a login or registration
\* stores a token.
C5_DeadTokenPurged ==
  [][ /\ (CheckAuthCalled /\ DeadToken(localStorage.token, now))
          => /\ localStorage'.token = NoToken
             /\ checkAuthResult' = "false"
             /\ checkAuthPc' = "idle"
             /\ purgedToken' = localStorage.token
      /\ (lastRequest' # lastRequest /\ purgedToken # NoToken)
          => lastRequest'.auth # purgedToken ]_vars

\* a token that expired one second ago was purged while the user was logged
\* in, and a request was sent afterwards
C5_Witness ==
  /\ purgedToken = TokenValid
  /\ now = TokenValid.exp * 1000 + 1000
  /\ authError = "expired"
  /\ localStorage.token = NoToken
  /\ checkAuthResult = "false"
  /\ lastRequest.url = "/appointments"
  /\ lastRequest.auth = NoToken

\* C6: checkAuth decides in this order: no token -> false, nothing purged, no
\* error, no request; too long or no separator -> malformed, whatever the
\* payload says; expiry unreadable -> the token is kept and sent to the server
\* for verification; expiry readable and not in the future -> expired.
\* Malformed and expired are reached without a request being sent.
C6_OrderOfChecks ==
  [][ CheckAuthCalled =>
        LET tok == localStorage.token
        IN /\ tok = NoToken
                => /\ checkAuthResult' = "false"
                   /\ UNCHANGED <<localStorage, authError, lastRequest>>
           /\ (tok # NoToken /\ TooLongOrNoSeparator(tok))
                => /\ authError' = "malformed"
                   /\ checkAuthResult' = "false"
                   /\ UNCHANGED lastRequest
           /\ (tok # NoToken /\ ~TooLongOrNoSeparator(tok) /\ ~tok.expReadable)
                => /\ localStorage'.token = tok
                   /\ UNCHANGED <<authError, checkAuthResult>>
                   /\ checkAuthPc' = "racing"
                   /\ lastRequest' # lastRequest
                   /\ lastRequest'.url = "/users/current"
                   /\ lastRequest'.auth = tok
           /\ (tok # NoToken /\ ~TooLongOrNoSeparator(tok) /\ ExpiryNotInFuture(tok, now))
                => /\ authError' = "expired"
                   /\ checkAuthResult' = "false"
                   /\ UNCHANGED lastRequest ]_vars

\* a token that is both too long and expired was classified as malformed, and
\* no request has been sent
C6_Witness ==
  /\ purgedToken = TokenLong
  /\ ExpiryNotInFuture(TokenLong, now)
  /\ authError = "malformed"
  /\ checkAuthResult = "false"
  /\ lastRequest.url = ""

\* C7: the user held by AuthProvider is non-null only if the server delivered
\* that user in a successful response; while checkAuth has passed the local
\* checks and is waiting for the server, the user is not set by it.
C7_NoFabricatedTrust ==
  /\ user # NoUser => user \in served
  /\ (checkAuthCalls = 1 /\ checkAuthPc # "idle" /\ served = {}) => user = NoUser

\* the session was restored by the answer to /users/current
C7_Witness ==
  /\ checkAuthResult = "true"
  /\ user # NoUser
  /\ verifyPromise.state = "fulfilled"
  /\ verifyPromise.user = user
  /\ loginPc = "idle"

(***************************************************************************)
(* Appointments: what a step did to the requests in flight                 *)
(***************************************************************************)
\* the step sent request r
Issued(r) == inFlight' = inFlight (+) SetToBag({r})
\* the step settled request r: its answer, or the lack of one, reached the mutation
Answered(r) == BagIn(r, inFlight) /\ inFlight' = inFlight (-) SetToBag({r})
\* the mutation that carried the request reported a failure
ReportedFailure == <<"general", "server">> \in formError'
\* no two appointments that hold a slot share doctor, date and time
NoDoubleBooking(store) ==
  \A a \in store : \A b \in store :
    (a._id # b._id /\ a.status # "cancelled" /\ b.status # "cancelled")
      => ~(a.doctor.id = b.doctor.id /\ a.date = b.date /\ a.time = b.time)

\* C3: a create is sent only for a slot that is conflict-free when it is
\* submitted, and a create that reaches the server when the slot has been
\* taken by another booker fails with the slot-conflict error, the stored
\* appointments staying as they were and never holding two on one slot.
C3_CreateRevalidates ==
  [][ /\ \A r \in BagToSet(inFlight') : (Issued(r) /\ r.kind = "create") => r.free
      /\ \A r \in BagToSet(inFlight) :
           (Answered(r) /\ r.kind = "create"
              /\ SlotTaken(srvAppointments, r.doctorId, r.date, r.time, ""))
             => (ReportedFailure /\ srvAppointments' = srvAppointments)
      /\ NoDoubleBooking(srvAppointments') ]_vars

\* C4: a status change request whose (current status, requested status) pair
\* is outside the transition table fails, and the stored status stays as it was.
C4_InvalidTransitionFails ==
  [][ \A r \in BagToSet(inFlight) :
        (Answered(r) /\ r.kind \in {"update", "cancel"}
           /\ FindById(srvAppointments, r.id) # NoAppointment
           /\ r.status \notin TransitionTable(FindById(srvAppointments, r.id).status))
          => (ReportedFailure /\ srvAppointments' = srvAppointments) ]_vars

\* C8: a confirm request is sent only by a doctor and only for an appointment
\* shown as pending, and a confirm that reaches an appointment which is no
\* longer pending is rejected: it fails and changes nothing.
C8_ConfirmOnlyWhilePending ==
  [][ /\ \A r \in BagToSet(inFlight') :
           (Issued(r) /\ r.kind = "update" /\ r.status = "confirmed")
             => (user.role = "doctor" /\ r.shown = "pending")
      /\ \A r \in BagToSet(inFlight) :
           (Answered(r) /\ r.kind = "update" /\ r.status = "confirmed"
              /\ FindById(srvAppointments, r.id).status # "pending")
             => (ReportedFailure /\ srvAppointments' = srvAppointments) ]_vars

C10_CompleteOnlyAfterTheDay ==
  [][ /\ \A app \in appointments :
           CanComplete(user, app, now)
             => (user.role = "doctor" /\ app.status = "confirmed" /\ app.date < FormatDate(now))
      /\ \A r \in BagToSet(inFlight') :
           (Issued(r) /\ r.status \in {"completed", "no-show"})
             => /\ user.role = "doctor"
                /\ r.shown = "confirmed"
                /\ FindById(appointments, r.id).date < FormatDate(now) ]_vars

\* the doctor marked yesterday's confirmed appointment as completed
C10_Witness ==
  /\ user.role = "doctor"
  /\ FormatDate(now) = 1
  /\ \E r \in BagToSet(inFlight) :
       /\ r.status = "completed" /\ r.shown = "confirmed"
       /\ FindById(appointments, r.id).date = 0

\* C11: the Archivar action is offered, and its request sent, only to a
\* doctor and only for an appointment shown as completed, cancelled or
\* no-show; no step archives an appointment that is pending or confirmed.
C11_ArchiveOnlyResolved ==
  [][ /\ \A app \in appointments :
           CanArchive(user, app)
             => (user.role = "doctor" /\ app.status \in {"completed", "cancelled", "no-show"})
      /\ \A r \in BagToSet(inFlight') :
           (Issued(r) /\ r.kind = "archive")
             => (user.role = "doctor" /\ r.shown \in {"completed", "cancelled", "no-show"})
      /\ \A a \in srvAppointments :
           a.status \in {"pending", "confirmed"}
             => FindById(srvAppointments', a._id).status # "archived" ]_vars

\* the doctor's archive request for a completed appointment is under way
C11_Witness ==
  /\ user.role = "doctor"
  /\ \E r \in BagToSet(inFlight) :
       /\ r.kind = "archive" /\ r.shown = "completed"
       /\ FindById(srvAppointments, r.id).status = "completed"

ListIsFresh == user # NoUser /\ appointments = ClientView(srvAppointments, user)
\* the server holds a non-cancelled appointment of the selected doctor on the
\* selected date at time m
TakenOnServer(m) ==
  \E a \in srvAppointments :
    /\ a.doctor.id = formData.doctorId
    /\ selectedDate # NoInstant /\ a.date = FormatDate(selectedDate)
    /\ a.time = m
    /\ a.status # "cancelled"

\* C13: with a freshly fetched list, a time taken by a non-cancelled
\* appointment of any patient with the selected doctor on the selected date
\* is not offered in availableTimes, whoever the user is.
C13_TakenByAnyPatientNotOffered ==
  ListIsFresh => \A m \in Range(availableTimes) : ~TakenOnServer(m)

C15_WithinOperatingWindow ==
  \A i \in 1..Len(availableTimes) : InOperatingHours(availableTimes[i])

\* an entry 07:30-17:30: the slots run from 08:00 to 16:30
C15_Witness ==
  /\ SelectedAvailability = AvailabilityEntry("monday", 450, 1050)
  /\ availableTimes # <<>>
  /\ availableTimes[1] = 480
  /\ availableTimes[Len(availableTimes)] = 990

\* C16 as stated: no slot of the sequence runs past the end time of the entry.
C16_NoSlotPastEnd ==
  SelectedAvailability # NoEntry =>
    \A i \in 1..Len(availableTimes) : availableTimes[i] + 30 <= SelectedAvailability.endTime

\* C16: a slot is in the sequence only if it starts before the end time of
\* the entry, and the last grid slot that starts before an end time off the
\* grid is kept when it is free and inside operating hours, although it runs
\* past the end time.
C16_StartsBeforeEnd ==
  SelectedAvailability # NoEntry =>
    /\ \A i \in 1..Len(availableTimes) : availableTimes[i] < SelectedAvailability.endTime
    /\ \A m \in Candidates(SelectedAvailability) :
         (InOperatingHours(m) /\ ~Booked(m) /\ m + 30 > SelectedAvailability.endTime)
           => m \in Range(availableTimes)

\* an entry 08:00-09:15: the slot of 09:00 is offered
C16_Witness ==
  /\ SelectedAvailability = AvailabilityEntry("monday", 480, 555)
  /\ availableTimes # <<>>
  /\ availableTimes[Len(availableTimes)] = 540

\* the availability entries of doctor d for the weekday of day number date
WindowsOf(d, date) ==
  IF d \in DOMAIN doctors
  THEN { e \in Range(doctors[d]) : e.day = FormatWeekday(ParseDate(date)) }
  ELSE {}

\* C17: every create request handleSubmit sends carries a time on the
\* 30-minute grid that lies inside the availability window of the request's
\* doctor for the weekday of the request's date.
C17_SubmittedTimeInWindow ==
  [][ \A r \in BagToSet(inFlight') :
        (Issued(r) /\ r.kind = "create")
          => /\ r.time % 30 = 0
             /\ \E e \in WindowsOf(r.doctorId, r.date) :
                  e.startTime <= r.time /\ r.time < e.endTime ]_vars

\* C18: every create or update request handleSubmit sends carries a reason
\* of 10 to 500 characters, and a submit with a blank, shorter or longer
\* reason sends no request and sets the inline error of the reason.
C18_ReasonLength ==
  [][ /\ \A r \in BagToSet(inFlight') :
           (Issued(r) /\ r.kind \in {"create", "edit"}) => (10 <= r.reason /\ r.reason <= 500)
      /\ (formError' # formError /\ openDialog
            /\ (TrimmedLength(formData.reason) < 10 \/ TrimmedLength(formData.reason) > 500)
            /\ \E k \in {"date", "time", "reason"} : \E m \in {"required", "short", "long",
                   "past", "interval", "hours", "format"} : <<k, m>> \in formError')
           => \E m \in {"required", "short", "long"} : <<"reason", m>> \in formError' ]_vars

\* C19: checkAuth makes at most MaxRetries retries; it goes into a backoff
\* delay only after a failure without an answer of the server (a lost request
\* or the timeout), never after the server answered; and when it gives up it
\* returns false with loading = false.
C19_BoundedRetry ==
  [][ /\ retryCount' <= MaxRetries
      /\ \A resp \in UserResponses("/users/current", verifyRequest.auth) :
           \A fb \in UserByIdResponses, alt \in UserByIdResponses :
             (resp.status # 0 /\ VerifySettles(resp, fb, alt)) => checkAuthPc' # "delay"
      /\ (checkAuthPc \in {"racing", "delay"} /\ checkAuthPc' = "idle" /\ checkAuthResult' # "true")
           => (checkAuthResult' = "false" /\ ~loading') ]_vars

\* C20: once the login form has reported the timeout of a login, that
\* login changes the session no more: no later step stores a token or sets
\* the user on its behalf.
C20_TimedOutLoginIsInert ==
  [][ loginPc = "timedOut" => (localStorage'.token = localStorage.token /\ user' = user) ]_vars

\* the session a logout leaves: no user, no token, the role of the session
\* that ended still in storage (logout removes the token only), and no login
\* or registration under way
LoggedOut ==
  /\ user = NoUser /\ localStorage.token = NoToken /\ localStorage.userRole # ""
  /\ loginPc = "idle"

\* C21: logout leaves no token in storage and no user, and from then on,
\* as long as no login or registration is started, no token is stored, no
\* user is set and no request carries an Authorization header.
C21_LogoutIsFinal ==
  [][ /\ (user # NoUser /\ user' = NoUser) => localStorage'.token = NoToken
      /\ (LoggedOut /\ loginPc' = "idle")
           => /\ user' = NoUser
              /\ localStorage'.token = NoToken
              /\ lastRequest' # lastRequest => lastRequest'.auth = NoToken ]_vars

\* C22: for every route of App, the route guard renders the children only
\* when loading is false and, on a route that requires authentication, a
\* user is present whose role is among the route's roles when roles are
\* given, and on the login and register routes, no user is present; without
\* the user it redirects to /login, with a wrong role to /unauthorized, and
\* from login and register with a user to /appointments.  The availability
\* page is rendered for a doctor only.
C22_RouteGuard ==
  \A rt \in Routes :
    LET out == ProtectedRoute(user, loading, rt)
    IN /\ out = "children" =>
            /\ ~loading
            /\ rt.requireAuth => (user # NoUser /\ (rt.rolesGiven => user.role \in rt.roles))
            /\ ~rt.requireAuth => user = NoUser
       /\ (~loading /\ rt.requireAuth /\ user = NoUser) => out = "/login"
       /\ (~loading /\ rt.requireAuth /\ user # NoUser /\ rt.rolesGiven /\ user.role \notin rt.roles)
            => out = "/unauthorized"
       /\ (~loading /\ ~rt.requireAuth /\ user # NoUser) => out = "/appointments"
       /\ (rt.path = "/availability" /\ out = "children") => user.role = "doctor"

\* a patient is logged in: the appointments page is rendered, the
\* availability page is not
C22_Witness ==
  /\ ~loading /\ user # NoUser /\ user.role = "patient"
  /\ \E rt \in Routes : rt.path = "/availability" /\ ProtectedRoute(user, loading, rt) = "/unauthorized"
  /\ \E rt \in Routes : rt.path = "/appointments" /\ ProtectedRoute(user, loading, rt) = "children"

\* C23: when the server answers the request of apiService with 401, the
\* stored token is removed and the call is rejected with an error that
\* carries the answer.
C23_UnauthorizedRejects ==
  [][ \A resp \in UserResponses("/users/current", verifyRequest.auth) :
        \A fb \in UserByIdResponses, alt \in UserByIdResponses :
          (resp.status = 401 /\ VerifySettles(resp, fb, alt))
            => /\ localStorage'.token = NoToken
               /\ verifyPromise'.state = "rejected"
               /\ verifyPromise'.hasResponse /\ verifyPromise'.status = 401 ]_vars

\* C24: a login keeps the stored redirectAfterLogin: the value in storage
\* when login is called is the value in storage while the request is under
\* way and when its answer has been handled.
C24_RedirectSurvivesLogin ==
  [][ (loginPc' \in {"login", "timedOut"} \/ loginPc \in {"login", "timedOut"})
        => localStorage'.redirectAfterLogin = localStorage.redirectAfterLogin ]_vars

\* C25: every retry of checkAuth sends a new request for the current user
\* and starts a new timeout for it.
C25_RetryAsksAgain ==
  [][ retryCount' = retryCount + 1
        => /\ lastRequest' # lastRequest
           /\ lastRequest'.url = "/users/current"
           /\ verifyRequest' = lastRequest'
           /\ verifyPromise'.state = "pending"
           /\ timeoutPromise' = "pending" ]_vars

\* C26: whenever a call of checkAuth ends with false, whether at the local
\* checks, at the answer of the server or at the timeout, no token is left in
\* storage.
C26_FailedCheckLeavesNoToken ==
  [][ (/\ checkAuthPc' = "idle" /\ checkAuthResult' = "false"
       /\ (checkAuthPc # "idle" \/ checkAuthCalls' # checkAuthCalls))
        => localStorage'.token = NoToken ]_vars

\* C27: a login or register call refused by the input validation sends no
\* request, sets the error with loading = false, and leaves the token, the
\* userId and the userRole in storage and the user as they were.
C27_RefusedInputChangesNothing ==
  [][ (LoginStart(FALSE) \/ RegisterStart(FALSE))
        => /\ lastRequest' = lastRequest
           /\ authError' = "validation" /\ ~loading'
           /\ localStorage'.token = localStorage.token
           /\ localStorage'.userId = localStorage.userId
           /\ localStorage'.userRole = localStorage.userRole
           /\ user' = user ]_vars

\* C28: when a create or update request of the form has succeeded (the
\* server stored it), the form dialog is closed, the form state is reset and
\* the discard-changes dialog is not opened.
C28_SuccessClosesForm ==
  [][ \A r \in BagToSet(inFlight) :
        (Answered(r) /\ r.kind \in {"create", "edit"} /\ srvAppointments' # srvAppointments)
          => /\ ~openDialog' /\ ~confirmActionDialog'
             /\ formData' = Preselect(EmptyForm, user)
             /\ selectedDate' = NoInstant /\ selectedTime' = NoInstant
             /\ editingAppointment' = NoAppointment
             /\ formError' = {} ]_vars

\* C29: every time of availableTimes, picked as selectedTime, passes the
\* rules validateForm has for the time of day: an hour from 8 to 16 and a
\* minute that is a multiple of 30.
C29_OfferedTimesValidate ==
  \A i \in 1..Len(availableTimes) :
    LET picked == ParseHHmm(availableTimes[i], now)
    IN /\ Hour(picked) >= 8 /\ Hour(picked) < 17
       /\ Minute(picked) % 30 = 0

\* C30: ArchivedAppointmentList rendered without a user has at most one
\* verification under way (a pending then() keeps loadingUser true), and when
\* the verification it started has finished loadingUser is false again, so
\* that the archived query (enabled: a user and not loadingUser) is enabled
\* once a user is there.
C30_VerificationReleasesQuery ==
  [][ /\ checkAuthThen' # "none" => loadingUser'
      /\ (checkAuthThen # "none" /\ checkAuthThen' = "none")
           => /\ ~loadingUser'
              /\ user' # NoUser => (user'._id # "" /\ ~loadingUser') ]_vars
====
